---- MODULE Spec2Model ----
(***************************************************************************)
(* Model of src/main.py: a launcher, main(), that resolves a               *)
(* multiprocessing start method from the environment, starts one process   *)
(* running worker() and joins it; and worker(), a straight-line sequence   *)
(* of calls into the aequilibrae library.  Library calls are black boxes   *)
(* that either return or raise.                                            *)
(***************************************************************************)
EXTENDS Naturals, Sequences, FiniteSets, TLC

(* ------------------------------------------------------------------ *)
(* Bounds and the environment of a run                                *)
(* ------------------------------------------------------------------ *)

\* Number of distinct values uuid4().hex is allowed to take in the model.
NumIds == 2

Ids == 1..NumIds

\* Invocations of the script on one machine.  Spec runs FirstRun alone;
\* SpecConc runs both concurrently.
Runs == {"A", "B"}

FirstRun == "A"

\* Python's None (os.environ.get of an unset variable, get_context(None)).
None == "<None>"

Platforms == {"linux", "win32"}

\* multiprocessing.get_all_start_methods() per platform.
AvailableMethods ==
    [p \in Platforms |->
        IF p = "linux" THEN {"fork", "spawn", "forkserver"} ELSE {"spawn"}]

\* The platform's default start method (first of get_all_start_methods()).
DefaultMethod == [p \in Platforms |-> IF p = "linux" THEN "fork" ELSE "spawn"]

\* Values of MULTIPROCESSING_START_METHOD: unset, empty, the start-method
\* names, and a string that names no start method.
EnvValues == {None, "", "fork", "spawn", "forkserver", "bogus"}

VARIABLES
    platform,               \* the machine's platform
    env,                    \* os.environ.get("MULTIPROCESSING_START_METHOD")
    mpc,                    \* main(): next line to execute, or "done"/"raised"
    start_method,           \* main(): local start_method
    default_start_method,   \* main(): local default_start_method
    ctx_arg,                \* argument main() passed to get_context
    context,                \* start method of the context main() obtained
    mexit,                  \* exit status of the main process
    nstarted,               \* worker processes started by main()
    nexited,                \* worker processes that have terminated
    wstate,                 \* worker process: "initial", "started", "exited"
    exitcode,               \* worker process exit code (read once exited)
    wpc,                    \* worker(): index of the next statement
    calls,                  \* worker(): statements performed, in order
    raisedAt,               \* worker(): index of the statement that raised, or 0
    fldr,                   \* worker(): parts of the project directory path
    project,                \* project handle: "none", "open", "closed"
    console                 \* lines printed on the shared standard output

vars == <<platform, env, mpc, start_method, default_start_method, ctx_arg,
          context, mexit, nstarted, nexited, wstate, exitcode, wpc, calls,
          raisedAt, fldr, project, console>>

mainVars == <<mpc, start_method, default_start_method, ctx_arg, context,
              mexit, nstarted>>

workerVars == <<nexited, wstate, exitcode, wpc, calls, raisedAt, fldr,
                project>>

(* ------------------------------------------------------------------ *)
(* Pure helpers                                                       *)
(* ------------------------------------------------------------------ *)

\* Python truthiness of the values a start method can take.
Truthy(v) == v # None /\ v # ""

\* Mutant: only None is falsy, the empty string is passed through.
OrNoneKeepsEmpty(v) == v

\* `v or None` (line 87).
OrNone(v) == IF Truthy(v) THEN v ELSE None

\* get_start_method() (line 88): the name of the platform default context.
get_start_method == DefaultMethod[platform]

\* The f-string of line 89.
Notice(sm, dsm) ==
    "Using start method " \o (IF Truthy(sm) THEN sm ELSE dsm \o " (default)")

\* get_context(method) (line 90): the default context for None, the named
\* context when the platform has it, ValueError otherwise.
get_context(method) ==
    IF method = None THEN DefaultMethod[platform]
    ELSE IF method \in AvailableMethods[platform] THEN method
    ELSE "ValueError"

gettempdir == "/tmp"

\* Mutant: the random component is left out of the path.
PathNoId(id) == <<gettempdir, "aequilibrae">>

\* Path(gettempdir()) / "aequilibrae" / uuid4().hex (line 14), as its parts.
ProjectPath(id) == <<gettempdir, "aequilibrae", id>>

(* ------------------------------------------------------------------ *)
(* worker(): the statements of lines 14-83, in program order          *)
(* ------------------------------------------------------------------ *)

\* One statement: its source line, the operation it performs, whether it is
\* a call into the library (which may raise), and what it prints, if anything.
Call(l, c) == [line |-> l, call |-> c, kind |-> "call", text |-> ""]

Say(l, c, t) == [line |-> l, call |-> c, kind |-> "print", text |-> t]

\* Lines 14-49: project, graph, matrix, traffic class, assignment, add_class.
SetupSteps ==
    << [line |-> 14, call |-> "fldr", kind |-> "path", text |-> ""],
       Call(16, "create_example"),
       Call(19, "build_graphs"),
       Call(24, "graphs[c]"),
       Call(27, "set_graph"),
       Call(31, "set_blocked_centroid_flows"),
       Call(34, "matrices"),
       Call(35, "list"),
       Call(38, "get_matrix"),
       Call(39, "computational_view"),
       Call(44, "TrafficClass"),
       Call(46, "TrafficAssignment"),
       Call(49, "add_class") >>

\* Lines 52-66: the configuration of the assignment.
ConfigSteps ==
    << Call(52, "set_vdf"),
       Call(55, "set_vdf_parameters"),
       Call(58, "set_capacity_field"),
       Call(59, "set_time_field"),
       Call(62, "set_algorithm"),
       Call(65, "max_iter"),
       Call(66, "rgap_target") >>

\* Line 69.
ExecuteStep == << Call(69, "execute") >>

\* Lines 72-79: skims of the last iteration, printed and saved.  The list
\* printed on line 76 is the library's; indexing skims["car"] may raise.
ExportSteps ==
    << Call(72, "skim_congested"),
       [line |-> 76, call |-> "print_skim_names", kind |-> "printcall",
        text |-> "<skims[car].names>"],
       Call(79, "save_skims") >>

\* Lines 82-83.
CloseSteps ==
    << Call(82, "close"),
       Say(83, "print_worker_done", "Worker done") >>

\* Mutant: execute() is called before the last configuration assignment.
ProgramExecuteEarly ==
    SetupSteps \o SubSeq(ConfigSteps, 1, 6) \o ExecuteStep
        \o SubSeq(ConfigSteps, 7, 7) \o ExportSteps \o CloseSteps

\* Mutant: project.close() is left out.
ProgramNoClose ==
    SetupSteps \o ConfigSteps \o ExecuteStep \o ExportSteps
        \o SubSeq(CloseSteps, 2, 2)

\* Mutant: "Worker done" is printed before the project is closed.
ProgramDoneBeforeClose ==
    SetupSteps \o ConfigSteps \o ExecuteStep \o ExportSteps
        \o << CloseSteps[2], CloseSteps[1] >>

\* The body of worker().
WorkerProgram ==
    SetupSteps \o ConfigSteps \o ExecuteStep \o ExportSteps \o CloseSteps

\* Statements that call into the library and so may raise.
MayRaise(s) == s.kind \in {"call", "printcall"}

\* Effect of a returning call on the project handle.
ProjectAfter(c, old) ==
    IF c = "create_example" THEN "open"
    ELSE IF c = "close" THEN "closed"
    ELSE old

(* ------------------------------------------------------------------ *)
(* Initial state                                                      *)
(* ------------------------------------------------------------------ *)

Init ==
    /\ platform \in Platforms
    /\ env \in EnvValues
    /\ mpc = [r \in Runs |-> "l87"]
    /\ start_method = [r \in Runs |-> None]
    /\ default_start_method = [r \in Runs |-> None]
    /\ ctx_arg = [r \in Runs |-> None]
    /\ context = [r \in Runs |-> None]
    /\ mexit = [r \in Runs |-> None]
    /\ nstarted = [r \in Runs |-> 0]
    /\ nexited = [r \in Runs |-> 0]
    /\ wstate = [r \in Runs |-> "initial"]
    /\ exitcode = [r \in Runs |-> None]
    /\ wpc = [r \in Runs |-> 0]
    /\ calls = [r \in Runs |-> << >>]
    /\ raisedAt = [r \in Runs |-> 0]
    /\ fldr = [r \in Runs |-> << >>]
    /\ project = [r \in Runs |-> "none"]
    /\ console = [r \in Runs |-> << >>]

(* ------------------------------------------------------------------ *)
(* main(), lines 86-94                                                *)
(* ------------------------------------------------------------------ *)

\* Line 87: start_method = os.environ.get(...) or None
MainResolve(r) ==
    /\ mpc[r] = "l87"
    /\ start_method' = [start_method EXCEPT ![r] = OrNone(env)]
    /\ mpc' = [mpc EXCEPT ![r] = "l88"]
    /\ UNCHANGED <<platform, env, default_start_method, ctx_arg, context,
                   mexit, nstarted, console>>
    /\ UNCHANGED workerVars

\* Line 88: default_start_method = get_start_method()
MainDefault(r) ==
    /\ mpc[r] = "l88"
    /\ default_start_method' =
           [default_start_method EXCEPT ![r] = get_start_method]
    /\ mpc' = [mpc EXCEPT ![r] = "l89"]
    /\ UNCHANGED <<platform, env, start_method, ctx_arg, context, mexit,
                   nstarted, console>>
    /\ UNCHANGED workerVars

\* Line 89: the start-method notice.
MainNotice(r) ==
    /\ mpc[r] = "l89"
    /\ console' = [console EXCEPT ![r] =
           Append(@, Notice(start_method[r], default_start_method[r]))]
    /\ mpc' = [mpc EXCEPT ![r] = "l90"]
    /\ UNCHANGED <<platform, env, start_method, default_start_method,
                   ctx_arg, context, mexit, nstarted>>
    /\ UNCHANGED workerVars

\* Line 90: context = get_context(start_method).  A name the platform does
\* not have raises ValueError, which nothing catches: main() ends there.
MainContext(r) ==
    /\ mpc[r] = "l90"
    /\ ctx_arg' = [ctx_arg EXCEPT ![r] = start_method[r]]
    /\ LET c == get_context(start_method[r]) IN
           IF c = "ValueError"
           THEN /\ mpc' = [mpc EXCEPT ![r] = "raised"]
                /\ mexit' = [mexit EXCEPT ![r] = "1"]
                /\ UNCHANGED context
           ELSE /\ mpc' = [mpc EXCEPT ![r] = "l91"]
                /\ context' = [context EXCEPT ![r] = c]
                /\ UNCHANGED mexit
    /\ UNCHANGED <<platform, env, start_method, default_start_method,
                   nstarted, console>>
    /\ UNCHANGED workerVars

\* Line 91: process = context.Process(target=worker); nothing runs yet.
MainProcess(r) ==
    /\ mpc[r] = "l91"
    /\ mpc' = [mpc EXCEPT ![r] = "l92"]
    /\ UNCHANGED <<platform, env, start_method, default_start_method,
                   ctx_arg, context, mexit, nstarted, console>>
    /\ UNCHANGED workerVars

\* Line 92: process.start(): the worker process begins at worker()'s first
\* statement.
MainStart(r) ==
    /\ mpc[r] = "l92"
    /\ nstarted' = [nstarted EXCEPT ![r] = @ + 1]
    /\ wstate' = [wstate EXCEPT ![r] = "started"]
    /\ exitcode' = [exitcode EXCEPT ![r] = None]
    /\ wpc' = [wpc EXCEPT ![r] = 1]
    /\ mpc' = [mpc EXCEPT ![r] = "l93"]
    /\ UNCHANGED <<platform, env, start_method, default_start_method,
                   ctx_arg, context, mexit, console>>
    /\ UNCHANGED <<nexited, calls, raisedAt, fldr, project>>

\* Mutant: join() returns without waiting for the worker (join(timeout=0)).
MainJoinNoWait(r) ==
    /\ mpc[r] = "l93"
    /\ mpc' = [mpc EXCEPT ![r] = "l94"]
    /\ UNCHANGED <<platform, env, start_method, default_start_method,
                   ctx_arg, context, mexit, nstarted, console>>
    /\ UNCHANGED workerVars

\* Mutant: a failed worker is started again instead of being left alone.
MainJoinRetry(r) ==
    /\ mpc[r] = "l93"
    /\ wstate[r] = "exited"
    /\ mpc' = [mpc EXCEPT ![r] = IF exitcode[r] = "0" THEN "l94" ELSE "l91"]
    /\ UNCHANGED <<platform, env, start_method, default_start_method,
                   ctx_arg, context, mexit, nstarted, console>>
    /\ UNCHANGED workerVars

\* Mutant: the worker's exit code is checked and a failure re-raised.
MainJoinChecked(r) ==
    /\ mpc[r] = "l93"
    /\ wstate[r] = "exited"
    /\ IF exitcode[r] = "0"
       THEN mpc' = [mpc EXCEPT ![r] = "l94"] /\ UNCHANGED mexit
       ELSE /\ mpc' = [mpc EXCEPT ![r] = "raised"]
            /\ mexit' = [mexit EXCEPT ![r] = "1"]
    /\ UNCHANGED <<platform, env, start_method, default_start_method,
                   ctx_arg, context, nstarted, console>>
    /\ UNCHANGED workerVars

\* Mutant: join() never returns once the worker has failed.
MainJoinHangs(r) ==
    /\ mpc[r] = "l93"
    /\ wstate[r] = "exited"
    /\ exitcode[r] = "0"
    /\ mpc' = [mpc EXCEPT ![r] = "l94"]
    /\ UNCHANGED <<platform, env, start_method, default_start_method,
                   ctx_arg, context, mexit, nstarted, console>>
    /\ UNCHANGED workerVars

\* Line 93: process.join() returns once the worker process has terminated,
\* whatever its exit code, which main() never reads.
MainJoin(r) ==
    /\ mpc[r] = "l93"
    /\ wstate[r] = "exited"
    /\ mpc' = [mpc EXCEPT ![r] = "l94"]
    /\ UNCHANGED <<platform, env, start_method, default_start_method,
                   ctx_arg, context, mexit, nstarted, console>>
    /\ UNCHANGED workerVars

\* Line 94: print("All done!"); main() returns and the interpreter exits 0.
MainAllDone(r) ==
    /\ mpc[r] = "l94"
    /\ console' = [console EXCEPT ![r] = Append(@, "All done!")]
    /\ mpc' = [mpc EXCEPT ![r] = "done"]
    /\ mexit' = [mexit EXCEPT ![r] = "0"]
    /\ UNCHANGED <<platform, env, start_method, default_start_method,
                   ctx_arg, context, nstarted>>
    /\ UNCHANGED workerVars

(* ------------------------------------------------------------------ *)
(* worker(), lines 13-83, running in the process main() started       *)
(* ------------------------------------------------------------------ *)

Running(r) == wstate[r] = "started" /\ wpc[r] \in 1..Len(WorkerProgram)

\* Line 14: fldr = Path(gettempdir()) / "aequilibrae" / uuid4().hex, with
\* uuid4() drawing any identifier.
WorkerPath(r) ==
    /\ Running(r)
    /\ WorkerProgram[wpc[r]].kind = "path"
    /\ \E id \in Ids : fldr' = [fldr EXCEPT ![r] = ProjectPath(id)]
    /\ calls' = [calls EXCEPT ![r] = Append(@, WorkerProgram[wpc[r]].call)]
    /\ wpc' = [wpc EXCEPT ![r] = @ + 1]
    /\ UNCHANGED <<platform, env, console>>
    /\ UNCHANGED mainVars
    /\ UNCHANGED <<nexited, wstate, exitcode, raisedAt, project>>

\* A call into the library returns.
WorkerCall(r) ==
    /\ Running(r)
    /\ WorkerProgram[wpc[r]].kind = "call"
    /\ calls' = [calls EXCEPT ![r] = Append(@, WorkerProgram[wpc[r]].call)]
    /\ project' = [project EXCEPT ![r] =
           ProjectAfter(WorkerProgram[wpc[r]].call, @)]
    /\ wpc' = [wpc EXCEPT ![r] = @ + 1]
    /\ UNCHANGED <<platform, env, console>>
    /\ UNCHANGED mainVars
    /\ UNCHANGED <<nexited, wstate, exitcode, raisedAt, fldr>>

\* Lines 76 and 83: a print statement.
WorkerPrint(r) ==
    /\ Running(r)
    /\ WorkerProgram[wpc[r]].kind \in {"print", "printcall"}
    /\ calls' = [calls EXCEPT ![r] = Append(@, WorkerProgram[wpc[r]].call)]
    /\ console' = [console EXCEPT ![r] = Append(@, WorkerProgram[wpc[r]].text)]
    /\ wpc' = [wpc EXCEPT ![r] = @ + 1]
    /\ UNCHANGED <<platform, env>>
    /\ UNCHANGED mainVars
    /\ UNCHANGED <<nexited, wstate, exitcode, raisedAt, fldr, project>>

\* Mutant: the exception is swallowed (try/except: pass) and worker() goes
\* on with the next statement.
WorkerRaiseSwallowed(r) ==
    /\ Running(r)
    /\ MayRaise(WorkerProgram[wpc[r]])
    /\ raisedAt[r] = 0
    /\ calls' = [calls EXCEPT ![r] = Append(@, WorkerProgram[wpc[r]].call)]
    /\ raisedAt' = [raisedAt EXCEPT ![r] = wpc[r]]
    /\ wpc' = [wpc EXCEPT ![r] = @ + 1]
    /\ UNCHANGED <<platform, env, console>>
    /\ UNCHANGED mainVars
    /\ UNCHANGED <<nexited, wstate, exitcode, fldr, project>>

\* A call into the library raises.  worker() has no try/except, so the
\* exception leaves worker() and the process exits with code 1; wpc stays
\* on the statement that raised.
WorkerRaise(r) ==
    /\ Running(r)
    /\ MayRaise(WorkerProgram[wpc[r]])
    /\ calls' = [calls EXCEPT ![r] = Append(@, WorkerProgram[wpc[r]].call)]
    /\ raisedAt' = [raisedAt EXCEPT ![r] = wpc[r]]
    /\ wstate' = [wstate EXCEPT ![r] = "exited"]
    /\ exitcode' = [exitcode EXCEPT ![r] = "1"]
    /\ nexited' = [nexited EXCEPT ![r] = @ + 1]
    /\ UNCHANGED <<platform, env, console>>
    /\ UNCHANGED mainVars
    /\ UNCHANGED <<wpc, fldr, project>>

\* worker() returns after its last statement and the process exits with 0.
WorkerReturn(r) ==
    /\ wstate[r] = "started"
    /\ wpc[r] = Len(WorkerProgram) + 1
    /\ wstate' = [wstate EXCEPT ![r] = "exited"]
    /\ exitcode' = [exitcode EXCEPT ![r] = "0"]
    /\ nexited' = [nexited EXCEPT ![r] = @ + 1]
    /\ UNCHANGED <<platform, env, console>>
    /\ UNCHANGED mainVars
    /\ UNCHANGED <<wpc, calls, raisedAt, fldr, project>>

(* ------------------------------------------------------------------ *)
(* Specifications                                                     *)
(* ------------------------------------------------------------------ *)

MainStep(r) ==
    \/ MainResolve(r)
    \/ MainDefault(r)
    \/ MainNotice(r)
    \/ MainContext(r)
    \/ MainProcess(r)
    \/ MainStart(r)
    \/ MainJoin(r)
    \/ MainAllDone(r)

WorkerStep(r) ==
    \/ WorkerPath(r)
    \/ WorkerCall(r)
    \/ WorkerPrint(r)
    \/ WorkerRaise(r)
    \/ WorkerReturn(r)

\* One invocation of the script (lines 97-98).
Next == MainStep(FirstRun) \/ WorkerStep(FirstRun)

Spec == Init /\ [][Next]_vars

\* The scheduler is fair to both processes, and every library call returns
\* or raises.
FairSpec ==
    Spec /\ WF_vars(MainStep(FirstRun)) /\ WF_vars(WorkerStep(FirstRun))

\* Several invocations of the script running concurrently on one machine.
NextConc == \E r \in Runs : MainStep(r) \/ WorkerStep(r)

SpecConc == Init /\ [][NextConc]_vars

(* ------------------------------------------------------------------ *)
(* Vocabulary of the properties                                       *)
(* ------------------------------------------------------------------ *)

Count(c, s) == Cardinality({i \in DOMAIN s : s[i] = c})

Occurs(c, s) == \E i \in DOMAIN s : s[i] = c

\* Position of the first occurrence of c in s; 0 when there is none.
Index(c, s) ==
    IF Occurs(c, s) THEN CHOOSE i \in DOMAIN s :
                             s[i] = c /\ \A j \in 1..(i - 1) : s[j] # c
    ELSE 0

\* c occurs in s, and before any occurrence of d.
Before(c, d, s) == Occurs(c, s) /\ (Occurs(d, s) => Index(c, s) < Index(d, s))

\* Run r's worker invoked c and the call came back without raising.
Returned(r, c) ==
    /\ Occurs(c, calls[r])
    /\ ~(raisedAt[r] # 0 /\ calls[r][Len(calls[r])] = c)

Last(s) == s[Len(s)]

\* The override is unset, empty, or a start method the platform has.
ValidOrEmpty == env \in {None, ""} \cup AvailableMethods[platform]

ConfigOps ==
    {"set_vdf", "set_vdf_parameters", "set_capacity_field", "set_time_field",
     "set_algorithm", "max_iter", "rgap_target"}

(* ------------------------------------------------------------------ *)
(* C1                                                                 *)
(* ------------------------------------------------------------------ *)

\* C1: for an override that is a start method of the platform, unset or
\* empty, get_context is given the override when it is non-empty and None
\* otherwise, it does not raise, the context is that of the named method,
\* respectively of the platform default, and the first line printed, before
\* any process exists, names that method, followed by " (default)" when it
\* is the default.
C1_StartMethodChosen ==
    \A r \in Runs :
        ValidOrEmpty =>
            /\ mpc[r] \notin {"l87", "l88", "l89"} =>
                   /\ Len(console[r]) >= 1
                   /\ console[r][1] =
                          IF env \in {None, ""}
                          THEN "Using start method " \o DefaultMethod[platform]
                                   \o " (default)"
                          ELSE "Using start method " \o env
            /\ mpc[r] \notin {"l87", "l88", "l89", "l90"} =>
                   /\ mpc[r] # "raised"
                   /\ ctx_arg[r] = (IF env \in {None, ""} THEN None ELSE env)
                   /\ context[r] = (IF env \in {None, ""}
                                    THEN DefaultMethod[platform] ELSE env)
            /\ mpc[r] \in {"l87", "l88", "l89"} => nstarted[r] = 0

\* An empty override has fallen back to the default and the context exists.
C1_Witness ==
    /\ env = ""
    /\ mpc[FirstRun] = "l91"
    /\ context[FirstRun] = DefaultMethod[platform]

(* ------------------------------------------------------------------ *)
(* C2                                                                 *)
(* ------------------------------------------------------------------ *)

\* C2 as stated: in every run of worker(), once it has ended, each of the
\* seven configuration operations has occurred exactly once, and before
\* execute().
C2_Original ==
    \A r \in Runs :
        wstate[r] = "exited" =>
            \A c \in ConfigOps :
                /\ Count(c, calls[r]) = 1
                /\ Before(c, "execute", calls[r])

\* C2, amended: in every run of worker() each of the seven configuration
\* operations occurs at most once; whenever execute() has been invoked, each
\* has occurred exactly once, has returned, and precedes execute().
C2_ConfigBeforeExecute ==
    \A r \in Runs :
        /\ \A c \in ConfigOps : Count(c, calls[r]) <= 1
        /\ Count("execute", calls[r]) <= 1
        /\ Occurs("execute", calls[r]) =>
               \A c \in ConfigOps :
                   /\ Count(c, calls[r]) = 1
                   /\ Returned(r, c)
                   /\ Index(c, calls[r]) < Index("execute", calls[r])

\* execute() has just been invoked and returned; the worker is still running.
C2_Witness ==
    /\ wstate[FirstRun] = "started"
    /\ Len(calls[FirstRun]) >= 1
    /\ Last(calls[FirstRun]) = "execute"

(* ------------------------------------------------------------------ *)
(* C3                                                                 *)
(* ------------------------------------------------------------------ *)

\* C3 as stated: in every run of worker() in which execute() has been
\* invoked, project.close() has been called by the time the worker process
\* has ended.
C3_Original ==
    \A r \in Runs :
        (wstate[r] = "exited" /\ Occurs("execute", calls[r])) =>
            Occurs("close", calls[r])

\* C3, amended: in every run of worker() in which execute() and the steps
\* after it (skim_congested, the printing of the skim names, save_skims) all
\* return, project.close() is called, once and after execute(), before the
\* worker process ends, and on the success path the project ends closed;
\* when one of those steps raises, close() is not called.
C3_CloseAfterExport ==
    \A r \in Runs :
        /\ (wstate[r] = "exited" /\ Returned(r, "save_skims")) =>
               /\ Count("close", calls[r]) = 1
               /\ Index("execute", calls[r]) < Index("close", calls[r])
        /\ exitcode[r] = "0" =>
               /\ Returned(r, "save_skims")
               /\ Returned(r, "close")
               /\ project[r] = "closed"
        /\ (Occurs("execute", calls[r]) /\ ~Returned(r, "save_skims")) =>
               /\ ~Occurs("close", calls[r])
               /\ project[r] = "open"

\* The worker has run to its end and exited with code 0.
C3_Witness ==
    /\ wstate[FirstRun] = "exited"
    /\ exitcode[FirstRun] = "0"
    /\ project[FirstRun] = "closed"

(* ------------------------------------------------------------------ *)
(* C4                                                                 *)
(* ------------------------------------------------------------------ *)

\* C4: while the worker process has been started and has not terminated,
\* main() is at process.join(): it has not printed "All done!" and has not
\* returned or exited.
C4_MainBlockedInJoin ==
    \A r \in Runs :
        wstate[r] = "started" =>
            /\ mpc[r] = "l93"
            /\ ~Occurs("All done!", console[r])
            /\ mexit[r] = None

\* The worker is in the middle of worker() while main() waits.
C4_Witness ==
    /\ wstate[FirstRun] = "started"
    /\ wpc[FirstRun] = Len(SetupSteps) + 1
    /\ mpc[FirstRun] = "l93"

(* ------------------------------------------------------------------ *)
(* C5                                                                 *)
(* ------------------------------------------------------------------ *)

\* Worker processes of run r that are alive.
Alive(r) == nstarted[r] - nexited[r]

\* C5 as stated: for every value of the override, a run of main() that has
\* ended has started exactly one worker process, and two are never alive at
\* once.
C5_Original ==
    \A r \in Runs :
        /\ Alive(r) <= 1
        /\ mpc[r] \in {"done", "raised"} => nstarted[r] = 1

\* C5, amended: in every run of main() at most one worker process is
\* started and two are never alive at once; exactly one has been started in
\* every run that has passed process.start(), which every run with an
\* override that is unset, empty or a start method of the platform does;
\* with any other override get_context() raises before a process is created
\* and the run starts none.
C5_OneWorker ==
    \A r \in Runs :
        /\ nstarted[r] <= 1
        /\ nexited[r] <= nstarted[r]
        /\ Alive(r) <= 1
        /\ mpc[r] \in {"l93", "l94", "done"} => nstarted[r] = 1
        /\ (ValidOrEmpty /\ mpc[r] \in {"done", "raised"}) =>
               (mpc[r] = "done" /\ nstarted[r] = 1)
        /\ (~ValidOrEmpty /\ mpc[r] \in {"done", "raised"}) =>
               (mpc[r] = "raised" /\ nstarted[r] = 0)

\* main() has finished after starting its one worker, which failed.
C5_Witness ==
    /\ mpc[FirstRun] = "done"
    /\ nstarted[FirstRun] = 1
    /\ nexited[FirstRun] = 1
    /\ raisedAt[FirstRun] = 2

(* ------------------------------------------------------------------ *)
(* C6                                                                 *)
(* ------------------------------------------------------------------ *)

\* C6: once a library call of worker() has raised, the worker process has
\* exited with a non-zero code, the raising call is the last statement
\* worker() performed (no later statement runs, then or afterwards), the
\* project is closed only if close() had returned, which it never has, and
\* "Worker done" is not printed.
C6_FailureEndsWorker ==
    \A r \in Runs :
        raisedAt[r] # 0 =>
            /\ wstate[r] = "exited"
            /\ exitcode[r] = "1"
            /\ Len(calls[r]) = raisedAt[r]
            /\ wpc[r] = raisedAt[r]
            /\ \A i \in 1..Len(calls[r]) :
                   calls[r][i] = WorkerProgram[i].call
            /\ ~Occurs("print_worker_done", calls[r])
            /\ ~Occurs("Worker done", console[r])
            /\ project[r] # "closed"

\* save_skims raised, and main() has since run to its end.
C6_Witness ==
    /\ raisedAt[FirstRun] # 0
    /\ Last(calls[FirstRun]) = "save_skims"
    /\ mpc[FirstRun] = "done"

(* ------------------------------------------------------------------ *)
(* C7                                                                 *)
(* ------------------------------------------------------------------ *)

\* C7: once the worker process has terminated, with either exit code,
\* join() can return; main() never raises or exits non-zero after it has
\* started a worker; having passed join() it prints "All done!" as its last
\* line and exits 0; and it never starts a second worker.
C7_ParentIgnoresStatus ==
    \A r \in Runs :
        /\ (mpc[r] = "l93" /\ wstate[r] = "exited") => ENABLED MainJoin(r)
        /\ nstarted[r] >= 1 => (mpc[r] # "raised" /\ mexit[r] # "1")
        /\ mpc[r] = "l94" => (wstate[r] = "exited" /\ ENABLED MainAllDone(r))
        /\ mpc[r] = "done" =>
               /\ Last(console[r]) = "All done!"
               /\ Count("All done!", console[r]) = 1
               /\ mexit[r] = "0"
               /\ exitcode[r] \in {"0", "1"}
        /\ nstarted[r] <= 1

\* The worker failed and main() printed "All done!" and exited 0 all the same.
C7_Witness ==
    /\ exitcode[FirstRun] = "1"
    /\ mpc[FirstRun] = "done"
    /\ mexit[FirstRun] = "0"
    /\ Last(console[FirstRun]) = "All done!"

(* ------------------------------------------------------------------ *)
(* C8                                                                 *)
(* ------------------------------------------------------------------ *)

\* Run r's worker has built its project directory path.
HasPath(r) == fldr[r] # << >>

\* C8 as stated: any two worker runs, concurrent ones included, have
\* different project directory paths.
C8_Original ==
    \A r1 \in Runs : \A r2 \in Runs \ {r1} :
        (HasPath(r1) /\ HasPath(r2)) => fldr[r1] # fldr[r2]

\* C8, amended: the project directory is the system temp dir, then
\* "aequilibrae", then the identifier uuid4() drew, so the paths of two
\* worker runs differ exactly when their identifiers differ; worker() does
\* nothing more to make the directory its own, and two runs that draw the
\* same identifier use the same directory.
C8_PathsDifferIffIdsDiffer ==
    /\ \A r \in Runs :
           HasPath(r) =>
               /\ Len(fldr[r]) = 3
               /\ fldr[r][1] = gettempdir
               /\ fldr[r][2] = "aequilibrae"
               /\ fldr[r][3] \in Ids
    /\ \A r1 \in Runs : \A r2 \in Runs \ {r1} :
           (HasPath(r1) /\ HasPath(r2)) =>
               (fldr[r1] # fldr[r2] <=> fldr[r1][3] # fldr[r2][3])

\* Two workers are running at once, in different directories, and both have
\* their project open.
C8_Witness ==
    \E r1 \in Runs : \E r2 \in Runs \ {r1} :
        /\ wstate[r1] = "started" /\ wstate[r2] = "started"
        /\ project[r1] = "open" /\ project[r2] = "open"
        /\ fldr[r1] # fldr[r2]

(* ------------------------------------------------------------------ *)
(* C9                                                                 *)
(* ------------------------------------------------------------------ *)

\* The order of worker()'s steps, as the claim gives it.
ClaimedOrder ==
    << "fldr", "create_example", "build_graphs", "graphs[c]", "set_graph",
       "set_blocked_centroid_flows", "matrices", "list", "get_matrix",
       "computational_view", "TrafficClass", "TrafficAssignment",
       "add_class", "set_vdf", "set_vdf_parameters", "set_capacity_field",
       "set_time_field", "set_algorithm", "max_iter", "rgap_target",
       "execute", "skim_congested", "print_skim_names", "save_skims",
       "close", "print_worker_done" >>

\* C9: at every moment the steps worker() has performed are an initial part
\* of the one fixed order, none skipped, repeated or out of place, and a run
\* that exits with code 0 has performed all of them; add_class precedes
\* every set_* call, skim_congested and save_skims come after execute() has
\* returned, and "Worker done" is printed after close() has returned, as
\* the worker's last line.
C9_FixedLinearOrder ==
    \A r \in Runs :
        /\ Len(calls[r]) <= Len(ClaimedOrder)
        /\ \A i \in 1..Len(calls[r]) : calls[r][i] = ClaimedOrder[i]
        /\ exitcode[r] = "0" =>
               /\ calls[r] = ClaimedOrder
               /\ raisedAt[r] = 0
        /\ \A c \in ConfigOps \ {"max_iter", "rgap_target"} :
               Occurs(c, calls[r]) =>
                   (Returned(r, "add_class") /\ Before("add_class", c, calls[r]))
        /\ \A c \in {"skim_congested", "save_skims"} :
               Occurs(c, calls[r]) =>
                   (Returned(r, "execute") /\ Before("execute", c, calls[r]))
        /\ Occurs("Worker done", console[r]) =>
               /\ Returned(r, "close")
               /\ project[r] = "closed"
               /\ Before("close", "print_worker_done", calls[r])
               /\ Count("Worker done", console[r]) = 1
        /\ (wstate[r] = "exited" /\ exitcode[r] = "0") =>
               SubSeq(console[r], 2, 3) = << "<skims[car].names>", "Worker done" >>

\* Every statement has run, "Worker done" is printed, worker() has yet to
\* return.
C9_Witness ==
    /\ wstate[FirstRun] = "started"
    /\ wpc[FirstRun] = Len(WorkerProgram) + 1
    /\ Last(console[FirstRun]) = "Worker done"

(* ------------------------------------------------------------------ *)
(* C10                                                                *)
(* ------------------------------------------------------------------ *)

\* C10: under a fair scheduler and library calls that return or raise, a
\* started worker process eventually terminates and main() then eventually
\* prints "All done!" and ends; and the parent never stops waiting while
\* the worker is running.
C10_EventuallyAllDone ==
    /\ \A r \in Runs : (wstate[r] = "started") ~> (wstate[r] = "exited")
    /\ \A r \in Runs :
           (wstate[r] = "started") ~>
               (mpc[r] = "done" /\ Occurs("All done!", console[r]))
    /\ [](\A r \in Runs :
              (mpc[r] \in {"l94", "done"}) => wstate[r] = "exited")

\* The worker ran every statement, exited 0, and main() has ended.
C10_Witness ==
    /\ nstarted[FirstRun] = 1
    /\ wstate[FirstRun] = "exited"
    /\ raisedAt[FirstRun] = 0
    /\ mpc[FirstRun] = "done"
    /\ Occurs("All done!", console[FirstRun])

====
